---- MODULE Spec2Model ----
(***************************************************************************)
(* Model of the crawl-and-extract engine of docs-to-markdown:              *)
(*   src/src/scraper.py  Scraper (selector resolution, frontier loop,      *)
(*                       normalize_url)                                    *)
(*   src/src/utils.py    save_markdown_file, compile_markdown_files        *)
(*                                                                         *)
(* Strings are sequences of tokens.  A token is a run of characters that   *)
(* the program never looks inside: "https://", "www.", "/", "#", ".md",    *)
(* a host name, a path segment.  Every string operation of the source      *)
(* (startswith, rstrip, split, replace, re.sub, os.path) is modelled on    *)
(* token sequences.                                                        *)
(***************************************************************************)
EXTENDS Naturals, Integers, Sequences, FiniteSets, TLC

\* ------------------------------------------------------------------------
\* Strings
\* ------------------------------------------------------------------------

Schemes == {"http://", "https://"}

StartsWith(s, p) == Len(p) <= Len(s) /\ SubSeq(s, 1, Len(p)) = p

\* str.rstrip(c): every trailing c goes, not only one
RECURSIVE RStrip(_, _)
RStrip(s, c) ==
    IF Len(s) > 0 /\ s[Len(s)] = c THEN RStrip(SubSeq(s, 1, Len(s) - 1), c) ELSE s

\* index of the first token of s that is in set cs, 0 when there is none
RECURSIVE FindFrom(_, _, _)
FindFrom(s, cs, i) ==
    IF i > Len(s) THEN 0 ELSE IF s[i] \in cs THEN i ELSE FindFrom(s, cs, i + 1)

Find(s, cs) == FindFrom(s, cs, 1)

\* index of the last token of s that is in set cs, 0 when there is none
RECURSIVE RFindFrom(_, _, _)
RFindFrom(s, cs, i) ==
    IF i = 0 THEN 0 ELSE IF s[i] \in cs THEN i ELSE RFindFrom(s, cs, i - 1)

RFind(s, cs) == RFindFrom(s, cs, Len(s))

\* s.split('/')[0]
SplitFirst(s) ==
    LET i == Find(s, {"/"} \cup Schemes)
    IN  IF i = 0 THEN s
        ELSE IF s[i] = "/" THEN SubSeq(s, 1, i - 1)
        ELSE SubSeq(s, 1, i - 1) \o << IF s[i] = "https://" THEN "https:" ELSE "http:" >>

\* s.split('/')[-1]: what follows the last "/"; a scheme token ends in "/"
SplitLast(s) ==
    LET i == RFind(s, {"/"} \cup Schemes)
    IN  SubSeq(s, i + 1, Len(s))

\* every string of at most n tokens of A
RECURSIVE StringsUpTo(_, _)
StringsUpTo(A, n) ==
    IF n = 0 THEN { << >> }
    ELSE LET prev == StringsUpTo(A, n - 1)
         IN  prev \cup { Append(s, a) : s \in prev, a \in A }

\* ------------------------------------------------------------------------
\* Scraper.normalize_url
\* ------------------------------------------------------------------------

\* re.sub(r'^(?:https?://)?(?:www\.)?', '', url): one optional scheme, then
\* one optional "www.", at the start of the string only
StripPrefixOnce(url) ==
    LET a == IF Len(url) > 0 /\ url[1] \in Schemes THEN Tail(url) ELSE url
    IN  IF Len(a) > 0 /\ a[1] = "www." THEN Tail(a) ELSE a

normalize_url(url) == RStrip(StripPrefixOnce(url), "/")

\* ------------------------------------------------------------------------
\* Paths and the file system (os.path, os.makedirs, open, os.walk)
\* ------------------------------------------------------------------------

\* os.getcwd()
Cwd == << "/", "cwd" >>

\* the separator compile_markdown_files writes after each file
NL == "\n\n"

\* os.path.join(a, b)
path_join(a, b) ==
    IF Len(b) > 0 /\ b[1] = "/" THEN b
    ELSE IF Len(a) = 0 \/ a[Len(a)] = "/" THEN a \o b
    ELSE a \o << "/" >> \o b

\* os.path.dirname(p)
path_dirname(p) ==
    LET head == SubSeq(p, 1, RFind(p, {"/"}))
    IN  IF head /= << >> /\ \E i \in 1..Len(head) : head[i] /= "/"
        THEN RStrip(head, "/") ELSE head

\* repeated separators count once
RECURSIVE Collapse(_)
Collapse(p) ==
    IF Len(p) < 2 THEN p
    ELSE IF p[1] = "/" /\ p[2] = "/" THEN Collapse(Tail(p))
    ELSE << p[1] >> \o Collapse(Tail(p))

\* The file or directory a path names: relative paths are taken from Cwd,
\* repeated and trailing separators do not matter.  << >> is the root.
Canon(p) ==
    LET a == IF Len(p) > 0 /\ p[1] = "/" THEN p ELSE Cwd \o << "/" >> \o p
    IN  RStrip(Collapse(a), "/")

\* the directory that holds the file or directory k (k canonical)
ParentDir(k) == SubSeq(k, 1, RFind(k, {"/"}) - 1)

RECURSIVE AncestorsAndSelf(_)
AncestorsAndSelf(k) ==
    IF k = << >> THEN {} ELSE {k} \cup AncestorsAndSelf(ParentDir(k))

IsDir(ds, k) == k = << >> \/ k \in ds

\* os.makedirs(p): p and every missing ancestor
makedirs(ds, p) == ds \cup AncestorsAndSelf(Canon(p))

\* every sequence that lists the elements of S once
RECURSIVE SeqPerms(_)
SeqPerms(S) ==
    IF S = {} THEN { << >> }
    ELSE UNION { { << x >> \o r : r \in SeqPerms(S \ {x}) } : x \in S }

\* os.walk(top), top-down: the files of a directory, then each of its
\* subdirectories in turn; the order inside a directory is the file
\* system's.  The result is the set of orders in which the files can come.
RECURSIVE WalkOrders(_, _, _)
RECURSIVE SubWalks(_, _, _)
WalkOrders(fs, ds, d) ==
    LET here == { k \in DOMAIN fs : ParentDir(k) = d }
        subs == { k \in ds : ParentDir(k) = d }
    IN  { fo \o so : fo \in SeqPerms(here), so \in SubWalks(fs, ds, subs) }
SubWalks(fs, ds, S) ==
    IF S = {} THEN { << >> }
    ELSE UNION { { w \o r : w \in WalkOrders(fs, ds, x), r \in SubWalks(fs, ds, S \ {x}) }
                 : x \in S }

os_walk(fs, ds, top) ==
    IF IsDir(ds, Canon(top)) THEN WalkOrders(fs, ds, Canon(top)) ELSE { << >> }

\* file.endswith('.md')
IsMarkdownName(k) == Len(k) > 0 /\ k[Len(k)] = ".md"

\* ------------------------------------------------------------------------
\* utils.save_markdown_file
\* ------------------------------------------------------------------------

\* url.replace('https://', '').replace('http://', '').rstrip('/')
ArtifactName(url) == RStrip(SelectSeq(url, LAMBDA t : t \notin Schemes), "/")

\* file_path of save_markdown_file
ArtifactPath(url) == path_join(<< "downloaded" >>, ArtifactName(url) \o << ".md" >>)

\* the directories after save_markdown_file(url, ...)
save_markdown_dirs(ds, url) == makedirs(ds, path_dirname(ArtifactPath(url)))

\* the files after save_markdown_file(url, content, ...): open(file_path, 'w')
\* replaces what the file held
save_markdown_file(fs, url, content) ==
    LET k == Canon(ArtifactPath(url))
    IN  [ x \in DOMAIN fs \cup {k} |-> IF x = k THEN content ELSE fs[x] ]

\* ------------------------------------------------------------------------
\* utils.compile_markdown_files
\* ------------------------------------------------------------------------

\* open(compiled_markdown_path, 'w') raises when the directory of the path
\* is missing or the path is a directory
CompileRaises(ds, out) ==
    \/ ~ IsDir(ds, ParentDir(Canon(out)))
    \/ Canon(out) \in ds

\* open(compiled_markdown_path, 'w'): the file exists and is empty from here on
Truncate(fs, out) ==
    [ x \in DOMAIN fs \cup {Canon(out)} |-> IF x = Canon(out) THEN << >> ELSE fs[x] ]

\* What the loop writes for the files of `order` from position i on, `acc`
\* being what it has written so far.  A file is read whole; the compiled
\* file itself, when the walk meets it, is open for writing, and a read
\* returns the part of acc that has left the write buffer: any prefix.
RECURSIVE Emit(_, _, _, _, _)
Emit(fs, out, order, i, acc) ==
    IF i > Len(order) THEN { acc }
    ELSE IF ~ IsMarkdownName(order[i]) THEN Emit(fs, out, order, i + 1, acc)
    ELSE IF order[i] = Canon(out)
         THEN UNION { Emit(fs, out, order, i + 1, acc \o SubSeq(acc, 1, n) \o << NL >>)
                      : n \in 0..Len(acc) }
         ELSE Emit(fs, out, order, i + 1, acc \o fs[order[i]] \o << NL >>)

\* the contents compile_markdown_files(base_path, compiled_markdown_path) can
\* leave in the compiled file
CompileOutputs(fs, ds, base, out) ==
    LET fs1 == Truncate(fs, out)
    IN  UNION { Emit(fs1, out, order, 1, << >>) : order \in os_walk(fs1, ds, base) }

\* the files after compile_markdown_files wrote `text`
compile_markdown_files(fs, out, text) ==
    [ x \in DOMAIN fs \cup {Canon(out)} |-> IF x = Canon(out) THEN text ELSE fs[x] ]

\* ------------------------------------------------------------------------
\* urllib.parse
\* ------------------------------------------------------------------------

\* urldefrag(url)[0]: the URL without its fragment
urldefrag(url) ==
    LET i == Find(url, {"#"}) IN IF i = 0 THEN url ELSE SubSeq(url, 1, i - 1)

\* urlparse(url).netloc: what stands between the scheme and the first "/" or
\* "#"; a string without a scheme has no netloc
netloc(url) ==
    IF Len(url) = 0 \/ url[1] \notin Schemes THEN << >>
    ELSE LET rest == Tail(url)
             i == Find(rest, {"/", "#"})
         IN  IF i = 0 THEN rest ELSE SubSeq(rest, 1, i - 1)

\* urljoin(base, ref) for the references the pages of the model hold:
\* absolute URLs, fragment-only references and plain relative paths
urljoin(base, ref) ==
    IF base = << >> THEN ref
    ELSE IF ref = << >> THEN base
    ELSE IF ref[1] \in Schemes THEN ref
    ELSE IF ref[1] = "#" THEN urldefrag(base) \o ref
    ELSE LET b == urldefrag(base)
             authority == << b[1] >> \o netloc(b)
             path == SubSeq(b, Len(authority) + 1, Len(b))
             dir == SubSeq(path, 1, RFind(path, {"/"}))
         IN  IF ref[1] = "/" THEN authority \o ref
             ELSE authority \o (IF dir = << >> THEN << "/" >> ELSE dir) \o ref

\* ------------------------------------------------------------------------
\* The site: URLs, pages, selectors
\* ------------------------------------------------------------------------

Docs == << "https://", "ex.com", "/", "docs" >>
DocsSlash == Docs \o << "/" >>
Sub == Docs \o << "/", "sub" >>
SubTop == Sub \o << "#", "top" >>
Top == << "#", "top" >>
RelSub == << "sub" >>
BlogX == << "https://", "ex.com", "/", "blog", "/", "x" >>
Home == << "https://", "ex.com" >>
HomeA == Home \o << "/", "a" >>
EvilX == << "https://", "ex.com", ".evil", "/", "x" >>
WwwDocs == << "https://", "www.", "ex.com", "/", "docs" >>
WwwSub == WwwDocs \o << "/", "sub" >>

\* the values of --start
StartUrls == { Docs, Home, WwwDocs }

\* the href attributes the anchors of a page of the site can hold
Hrefs(start) ==
    IF start = Home THEN { HomeA, EvilX, Top }
    ELSE IF start = WwwDocs THEN { WwwSub, Top }
    ELSE { Sub, SubTop, RelSub, DocsSlash, BlogX, Top }

\* most anchors on one page
MaxLinks == 2

\* the anchor lists soup.find_all('a', href=True) can return
LinkLists(start) == StringsUpTo(Hrefs(start), MaxLinks)

\* Scraper.DOM_SELECTORS as the class body sets it
BuiltinSelectors ==
    << "#ja-current-content", "#ja-content", "main", "article", "div#content",
       "div.content", "div.main-content", "div.post", "section.content",
       "section.main-content", "section.post", "#markdown-page", "#main" >>

\* A parsed page, as far as selectors see it: `full` are the selectors that
\* select at least one element, all with text; `hollow` those that select
\* at least one element of which one has no text.  Any other selector
\* selects nothing.
Soups ==
    { [full |-> {"article"},                    hollow |-> {}],
      [full |-> {"article", "#main"},           hollow |-> {"main"}],
      [full |-> {"div.doc"},                    hollow |-> {}],
      [full |-> {},                             hollow |-> {"article", "div.nope"}],
      [full |-> {"main", "article", "div.doc"}, hollow |-> {}] }

NoSoup == [full |-> {}, hollow |-> {}]

\* the selectors the oracle can answer
OracleAnswers == { "div.doc", "div.nope", "article" }

\* Python's None where a selector is expected
None == "None"

\* the markdown of the page at url
PageMd(url) == << "md(" >> \o url \o << ")" >>

\* elements and all(element.get_text(strip=True) for element in elements)
SelectsNonEmpty(soup, selector) == selector \in soup.full

\* the slip of leaving the text test out of line 141
Validates_AnyElement(soup, selector) == selector \in soup.full \cup soup.hollow

\* the test of line 141 on the answer of the oracle
Validates(soup, selector) == SelectsNonEmpty(soup, selector)

\* the first candidate that matches, 0 when none does (lines 75-78)
RECURSIVE FirstMatchFrom(_, _, _)
FirstMatchFrom(soup, selectors, i) ==
    IF i > Len(selectors) THEN 0
    ELSE IF SelectsNonEmpty(soup, selectors[i]) THEN i
    ELSE FirstMatchFrom(soup, selectors, i + 1)

\* the slip of keeping the last candidate that matches, not the first
RECURSIVE LastMatchFrom(_, _, _)
LastMatchFrom(soup, selectors, i) ==
    IF i = 0 THEN 0
    ELSE IF SelectsNonEmpty(soup, selectors[i]) THEN i
    ELSE LastMatchFrom(soup, selectors, i - 1)

FirstMatch_Last(soup, selectors) == LastMatchFrom(soup, selectors, Len(selectors))

FirstMatch(soup, selectors) == FirstMatchFrom(soup, selectors, 1)

\* backoff_max
backoff_max == 5

\* the slip of an inclusive loop bound
MayRetry_Inclusive(b) == b <= backoff_max

\* while backoff < backoff_max
MayRetry(b) == b < backoff_max

\* the calls of the oracle for one page are counted up to this number
MaxOracleCalls == 7

\* the count of oracle calls after one more call
CountCall(n) == IF n < MaxOracleCalls THEN n + 1 ELSE n

\* the slip of putting a new selector before the others
Remember_AtFront(selectors, selector) == << selector >> \o selectors

\* self.DOM_SELECTORS.append(selector)
Remember(selectors, selector) == Append(selectors, selector)

\* the slip of popping the end of the queue
pop0_Last(queue) ==
    [item |-> queue[Len(queue)], rest |-> SubSeq(queue, 1, Len(queue) - 1)]

\* to_scrape.pop(0): the URL popped and the queue left
pop0(queue) == [item |-> Head(queue), rest |-> Tail(queue)]

\* the slip of leaving out the visited check at pop time
AlreadyScraped_Never(u, done) == FALSE

\* random.randint(1, 5), or random.randint(20, 35) with slow (lines 231-233)
WaitTimes(slowly) == IF slowly THEN 20..35 ELSE 1..5

\* url in scraped (line 192)
AlreadyScraped(u, done) == u \in done

\* new_url of line 223, href being the attribute after
\* make_urls_absolute_and_encode (line 264)
ResolveLink(page_url, href) == urljoin(page_url, urldefrag(urljoin(page_url, href)))

\* the slip of leaving out the host comparison
Admit_NoHost(new_url, start, done) ==
    /\ StartsWith(new_url, start)
    /\ new_url \notin done

\* the slip of leaving out the prefix test
Admit_NoPrefix(new_url, start, done) ==
    /\ new_url \notin done
    /\ netloc(new_url) = netloc(start)

\* the condition of lines 226-227
Admit(new_url, start, done) ==
    /\ StartsWith(new_url, start)
    /\ new_url \notin done
    /\ netloc(new_url) = netloc(start)

\* the queue after the loop of lines 222-228 over the anchors from i on
RECURSIVE AdmitLinks(_, _, _, _, _, _)
AdmitLinks(queue, page_url, anchors, i, start, done) ==
    IF i > Len(anchors) THEN queue
    ELSE LET new_url == ResolveLink(page_url, anchors[i])
         IN  AdmitLinks(IF Admit(new_url, start, done) THEN Append(queue, new_url) ELSE queue,
                        page_url, anchors, i + 1, start, done)

\* ------------------------------------------------------------------------
\* State
\* ------------------------------------------------------------------------

VARIABLES
    pc,                     \* where the run is
    start_url,              \* --start
    compile_only,           \* --compile-only
    slow,                   \* --slow
    base_path,              \* scrape_website: base_path
    compiled_markdown_path, \* scrape_website: compiled_markdown_path
    to_scrape,              \* scrape_website: the queue
    scraped,                \* scrape_website: the visited set
    url,                    \* scrape_website: the URL popped last
    soup,                   \* scrape_website: the parsed page
    links,                  \* scrape_website: soup.find_all('a', href=True)
    wait_for,               \* scrape_website: the seconds slept at line 236 since
                            \* the last browser.get, 0 when it was not reached
    content_selector,       \* scrape_website: content_selector
    backoff,                \* _fetch_selector_from_openai: backoff
    DOM_SELECTORS,          \* Scraper.DOM_SELECTORS
    session,                \* the Scraper objects constructed so far
    own,                    \* the selectors line 143 appended in this session
    files,                  \* the files on disk: path -> content
    dirs,                   \* the directories on disk
    fetched,                \* the URLs browser.get was called with, in order
    enqueued,               \* the URLs put in to_scrape, in order
    discovered,             \* every new_url line 223 has computed
    persisted,              \* the URLs save_markdown_file was called with
    oracle_calls,           \* calls of client.chat.completions.create for url
    compiles,               \* calls of compile_markdown_files
    n_url,                  \* normalize_url: the argument
    n_once,                 \* normalize_url(n_url)
    n_twice                 \* normalize_url(normalize_url(n_url))

normVars == << n_url, n_once, n_twice >>

diskVars == << files, dirs >>

inputVars == << start_url, compile_only, slow >>

pathVars == << base_path, compiled_markdown_path >>

frontierVars == << to_scrape, scraped >>

pageVars == << url, soup, links, content_selector >>

oracleVars == << backoff, oracle_calls >>

paceVars == << wait_for >>

logVars == << fetched, enqueued, discovered, persisted >>

sessionVars == << session, own >>

vars == << pc, inputVars, pathVars, frontierVars, pageVars, oracleVars, DOM_SELECTORS,
           sessionVars, diskVars, logVars, paceVars, compiles, normVars >>

NoFiles == [ k \in {} |-> << >> ]

NormIdle == n_url = << >> /\ n_once = << >> /\ n_twice = << >>

CrawlIdle ==
    /\ start_url = << >>
    /\ compile_only = FALSE
    /\ slow = FALSE
    /\ wait_for = 0
    /\ to_scrape = << >>
    /\ scraped = {}
    /\ url = << >>
    /\ soup = NoSoup
    /\ links = << >>
    /\ content_selector = None
    /\ backoff = 0
    /\ DOM_SELECTORS = BuiltinSelectors
    /\ session = 1
    /\ own = << >>
    /\ fetched = << >>
    /\ enqueued = << >>
    /\ discovered = {}
    /\ persisted = {}
    /\ oracle_calls = 0

\* ------------------------------------------------------------------------
\* Scraper.scrape_website
\* ------------------------------------------------------------------------

\* What an earlier run for the same --start can have left on disk: nothing,
\* or (a run ended by the user after its first page) the artifact of the
\* start page.
InitialDisks(start) ==
    { [files |-> NoFiles, dirs |-> {}],
      [files |-> save_markdown_file(NoFiles, start, PageMd(start)),
       dirs  |-> save_markdown_dirs({}, start)] }

\* scrape_website is called with a start URL of `starts` and a slow flag of
\* `slows`
CallWith(starts, slows) ==
    /\ pc = "call"
    /\ start_url \in starts
    /\ compile_only \in BOOLEAN
    /\ slow \in slows
    /\ wait_for = 0
    /\ \E d \in InitialDisks(start_url) : files = d.files /\ dirs = d.dirs
    /\ base_path = << >>
    /\ compiled_markdown_path = << >>
    /\ to_scrape = << >>
    /\ scraped = {}
    /\ url = << >>
    /\ soup = NoSoup
    /\ links = << >>
    /\ content_selector = None
    /\ backoff = 0
    /\ DOM_SELECTORS = BuiltinSelectors
    /\ session = 1
    /\ own = << >>
    /\ fetched = << >>
    /\ enqueued = << >>
    /\ discovered = {}
    /\ persisted = {}
    /\ oracle_calls = 0
    /\ compiles = 0
    /\ NormIdle

\* slow is read for the time slept and for nothing else (lines 231-233):
\* the crawl is followed without --slow here, and with either value of it
\* under SpecPace
Init == CallWith(StartUrls, {FALSE})

\* lines 168-174
BasePathOf(start) == path_join(<< "downloaded" >>, path_dirname(normalize_url(start)))

CompiledPathOf(start) ==
    path_join(path_join(path_join(Cwd, << "downloaded" >>),
                        SplitFirst(normalize_url(start))),
              SplitLast(start) \o << ".md" >>)

\* lines 176-177
EnsureBase(ds, base) == IF IsDir(ds, Canon(base)) THEN ds ELSE makedirs(ds, base)

\* compile_markdown_files(base_path, compiled_markdown_path) on the disk
\* fs, ds: the next pc is `after`, or "raised" when open() raises
Compile(fs, ds, base, out, after) ==
    IF CompileRaises(ds, out)
    THEN /\ pc' = "raised"
         /\ files' = fs
         /\ compiles' = compiles + 1
    ELSE /\ pc' = after
         /\ \E text \in CompileOutputs(fs, ds, base, out) :
                files' = compile_markdown_files(fs, out, text)
         /\ compiles' = compiles + 1

\* lines 168-188 without --compile-only
BeginCrawl ==
    /\ pc = "call"
    /\ ~ compile_only
    /\ base_path' = BasePathOf(start_url)
    /\ compiled_markdown_path' = CompiledPathOf(start_url)
    /\ dirs' = EnsureBase(dirs, BasePathOf(start_url))
    /\ to_scrape' = << start_url >>
    /\ scraped' = {}
    /\ enqueued' = << start_url >>
    /\ pc' = "loop"
    /\ UNCHANGED << inputVars, pageVars, oracleVars, DOM_SELECTORS, files, fetched, discovered,
                    persisted, compiles, normVars, sessionVars, paceVars >>

\* lines 168-185 with --compile-only
CompileOnly ==
    /\ pc = "call"
    /\ compile_only
    /\ base_path' = BasePathOf(start_url)
    /\ compiled_markdown_path' = CompiledPathOf(start_url)
    /\ dirs' = EnsureBase(dirs, BasePathOf(start_url))
    /\ to_scrape' = << start_url >>
    /\ scraped' = {}
    /\ enqueued' = << start_url >>
    /\ Compile(files, dirs', BasePathOf(start_url), CompiledPathOf(start_url), "returned")
    /\ UNCHANGED << inputVars, pageVars, oracleVars, DOM_SELECTORS, fetched, discovered,
                    persisted, normVars, sessionVars, paceVars >>

\* lines 190-193: the popped URL was visited before
PopSkip ==
    /\ pc = "loop"
    /\ to_scrape /= << >>
    /\ AlreadyScraped(pop0(to_scrape).item, scraped)
    /\ to_scrape' = pop0(to_scrape).rest
    /\ url' = pop0(to_scrape).item
    /\ UNCHANGED << pc, inputVars, pathVars, scraped, soup, links, content_selector,
                    oracleVars, DOM_SELECTORS, diskVars, logVars, compiles,
                    normVars, sessionVars, paceVars >>

\* lines 190-202: the popped URL is new and is fetched
PopFetch ==
    /\ pc = "loop"
    /\ to_scrape /= << >>
    /\ ~ AlreadyScraped(pop0(to_scrape).item, scraped)
    /\ to_scrape' = pop0(to_scrape).rest
    /\ url' = pop0(to_scrape).item
    /\ scraped' = scraped \cup { pop0(to_scrape).item }
    /\ fetched' = Append(fetched, pop0(to_scrape).item)
    /\ wait_for' = 0
    /\ pc' = "fetched"
    /\ UNCHANGED << inputVars, pathVars, soup, links, content_selector, oracleVars,
                    DOM_SELECTORS, diskVars, enqueued, discovered, persisted, compiles,
                    normVars, sessionVars >>

\* lines 204-206: the title says 404
NotFound ==
    /\ pc = "fetched"
    /\ pc' = "loop"
    /\ UNCHANGED << inputVars, pathVars, frontierVars, pageVars, oracleVars, DOM_SELECTORS,
                    diskVars, logVars, compiles, normVars, sessionVars, paceVars >>

\* lines 208-211 and 74-78: the page is parsed and a candidate matches
ResolveCandidate ==
    /\ pc = "fetched"
    /\ \E page \in Soups :
        /\ FirstMatch(page, DOM_SELECTORS) /= 0
        /\ soup' = page
        /\ content_selector' = DOM_SELECTORS[FirstMatch(page, DOM_SELECTORS)]
    /\ pc' = "resolved"
    /\ UNCHANGED << inputVars, pathVars, frontierVars, url, links, oracleVars,
                    DOM_SELECTORS, diskVars, logVars, compiles, normVars, sessionVars, paceVars >>

\* lines 208-211, 74-80 and 103-129: no candidate matches, the oracle path
\* is entered
EnterOracle ==
    /\ pc = "fetched"
    /\ \E page \in Soups :
        /\ FirstMatch(page, DOM_SELECTORS) = 0
        /\ soup' = page
    /\ backoff' = 0
    /\ pc' = "oracle"
    /\ UNCHANGED << inputVars, pathVars, frontierVars, url, links, content_selector,
                    oracle_calls, DOM_SELECTORS, diskVars, logVars, compiles,
                    normVars, sessionVars, paceVars >>

\* lines 131-138: the loop test passes and the request is sent
OracleAsk ==
    /\ pc = "oracle"
    /\ MayRetry(backoff)
    /\ oracle_calls' = CountCall(oracle_calls)
    /\ pc' = "asked"
    /\ UNCHANGED << inputVars, pathVars, frontierVars, pageVars, backoff, DOM_SELECTORS,
                    diskVars, logVars, compiles, normVars, sessionVars, paceVars >>

\* lines 133-141 and 146-152: the call (or the selection with its answer)
\* raises
OracleRaises ==
    /\ pc = "asked"
    /\ backoff' = backoff + 1
    /\ pc' = "oracle"
    /\ UNCHANGED << inputVars, pathVars, frontierVars, pageVars, oracle_calls,
                    DOM_SELECTORS, diskVars, logVars, compiles, normVars, sessionVars, paceVars >>

\* lines 140-144: the oracle answers a selector that selects a non-empty
\* element set on the page
OracleValid ==
    /\ pc = "asked"
    /\ \E answer \in OracleAnswers :
        /\ Validates(soup, answer)
        /\ DOM_SELECTORS' = Remember(DOM_SELECTORS, answer)
        /\ own' = Append(own, answer)
        /\ content_selector' = answer
    /\ pc' = "resolved"
    /\ UNCHANGED << inputVars, pathVars, frontierVars, url, soup, links, oracleVars,
                    session, diskVars, logVars, paceVars, compiles, normVars >>

\* lines 140-141: the oracle answers a selector that does not validate; the
\* loop goes round with backoff as it was
OracleInvalid ==
    /\ pc = "asked"
    /\ \E answer \in OracleAnswers : ~ Validates(soup, answer)
    /\ pc' = "oracle"
    /\ UNCHANGED << inputVars, pathVars, frontierVars, pageVars, oracleVars,
                    DOM_SELECTORS, diskVars, logVars, compiles, normVars, sessionVars, paceVars >>

\* lines 154-155: the loop ends, None is returned
OracleExhausted ==
    /\ pc = "oracle"
    /\ ~ MayRetry(backoff)
    /\ content_selector' = None
    /\ pc' = "resolved"
    /\ UNCHANGED << inputVars, pathVars, frontierVars, url, soup, links, oracleVars,
                    DOM_SELECTORS, diskVars, logVars, compiles, normVars, sessionVars, paceVars >>

\* lines 212-221: the page is saved and its anchors are collected.  The
\* selector, the parsed page and the counters of the oracle loop are not
\* read again for this page; the model forgets them here.
SavePage ==
    /\ pc = "resolved"
    /\ content_selector /= None
    /\ files' = save_markdown_file(files, url, PageMd(url))
    /\ dirs' = save_markdown_dirs(dirs, url)
    /\ links' \in LinkLists(start_url)
    /\ soup' = NoSoup
    /\ content_selector' = None
    /\ backoff' = 0
    /\ oracle_calls' = 0
    /\ persisted' = persisted \cup { url }
    /\ pc' = "links"
    /\ UNCHANGED << inputVars, pathVars, frontierVars, url, DOM_SELECTORS, fetched,
                    enqueued, discovered, compiles, normVars, sessionVars, paceVars >>

\* the slip of leaving out the continue of line 219: the anchors of the
\* page are collected as for a saved page
SkipPage_NoContinue ==
    /\ pc = "resolved"
    /\ content_selector = None
    /\ links' \in LinkLists(start_url)
    /\ soup' = NoSoup
    /\ backoff' = 0
    /\ oracle_calls' = 0
    /\ pc' = "links"
    /\ UNCHANGED << inputVars, pathVars, frontierVars, url, content_selector,
                    DOM_SELECTORS, diskVars, logVars, compiles, normVars, sessionVars, paceVars >>

\* lines 217-219: no selector, the page is skipped
SkipPage ==
    /\ pc = "resolved"
    /\ content_selector = None
    /\ soup' = NoSoup
    /\ backoff' = 0
    /\ oracle_calls' = 0
    /\ pc' = "loop"
    /\ UNCHANGED << inputVars, pathVars, frontierVars, url, links, content_selector,
                    DOM_SELECTORS, diskVars, logVars, compiles, normVars, sessionVars, paceVars >>

\* lines 222-236: the anchors are admitted to the queue, then the pause
DiscoverLinks ==
    /\ pc = "links"
    /\ to_scrape' = AdmitLinks(to_scrape, url, links, 1, start_url, scraped)
    /\ enqueued' = enqueued \o SubSeq(to_scrape', Len(to_scrape) + 1, Len(to_scrape'))
    /\ discovered' = discovered \cup { ResolveLink(url, links[i]) : i \in 1..Len(links) }
    /\ links' = << >>
    /\ wait_for' \in WaitTimes(slow)
    /\ pc' = "loop"
    /\ UNCHANGED << inputVars, pathVars, scraped, url, soup, content_selector, oracleVars,
                    DOM_SELECTORS, diskVars, fetched, persisted, compiles, normVars, sessionVars >>

\* lines 190 and 238-239: the queue is empty, the artifacts are compiled.
\* The time slept last is not read again; the model forgets it here.
Finish ==
    /\ pc = "loop"
    /\ to_scrape = << >>
    /\ wait_for' = 0
    /\ Compile(files, dirs, base_path, compiled_markdown_path, "done")
    /\ UNCHANGED << inputVars, pathVars, frontierVars, pageVars, oracleVars, DOM_SELECTORS,
                    dirs, logVars, normVars, sessionVars >>

Next ==
    \/ BeginCrawl
    \/ CompileOnly
    \/ PopSkip
    \/ PopFetch
    \/ NotFound
    \/ ResolveCandidate
    \/ EnterOracle
    \/ OracleAsk
    \/ OracleRaises
    \/ OracleValid
    \/ OracleInvalid
    \/ OracleExhausted
    \/ SavePage
    \/ SkipPage
    \/ DiscoverLinks
    \/ Finish

Spec == Init /\ [][Next]_vars

\* the places of scrape_website short of its end
Running == { "call", "loop", "fetched", "oracle", "asked", "resolved", "links" }

\* how scrape_website ends: it returns, after the crawl or with
\* --compile-only, or an exception leaves it
Ended == { "done", "returned", "raised" }

\* control goes on from place p
Leaves(p) == pc = p /\ pc' \in (Running \cup Ended) \ {p}

\* The interpreter runs scrape_website until it returns or raises, and every
\* call it waits for (the browser, the oracle, sleep) comes back: control
\* stays at no place for ever.  Which answer the oracle gives, which page
\* the site serves, is not the program's to choose and gets no fairness.
SpecLive == Spec /\ \A p \in Running : WF_pc(Leaves(p))

\* ------------------------------------------------------------------------
\* Properties of the crawl (specification Spec)
\* ------------------------------------------------------------------------

Range(q) == { q[i] : i \in 1..Len(q) }

\* C1: during one crawl no URL string is fetched (browser.get) more than
\* once, even when it was discovered several times and sits in the queue
\* more than once.
C1_NoRefetch ==
    \A i, j \in 1..Len(fetched) : fetched[i] = fetched[j] => i = j

\* a finished crawl in which some URL was put in the queue twice
C1_Witness ==
    /\ pc = "done"
    /\ Len(fetched) >= 2
    /\ \E i, j \in 1..Len(enqueued) :
          i < j /\ enqueued[i] = enqueued[j] /\ enqueued[i] \in Range(fetched)

\* C2: every URL fetched is the start URL or a URL that has the start URL as
\* a string prefix and the start URL's host; a link to another host is never
\* fetched; when the crawl pass ends (compile has run or has raised) the
\* queue is empty.
C2_FetchedInScope ==
    /\ \A i \in 1..Len(fetched) :
          \/ fetched[i] = start_url
          \/ /\ StartsWith(fetched[i], start_url)
             /\ netloc(fetched[i]) = netloc(start_url)
    /\ (~ compile_only /\ pc \in {"done", "raised"}) => to_scrape = << >>

\* a finished crawl of two pages that met a link to another host which has
\* the start URL as a string prefix
C2_Witness ==
    /\ pc = "done"
    /\ Len(fetched) >= 2
    /\ EvilX \in discovered
    /\ StartsWith(EvilX, start_url)

\* C3: a link found on a persisted page, resolved against the page URL and
\* stripped of its fragment, is appended to the queue if and only if it
\* starts with the start URL, is not in the visited set and has the start
\* URL's host.  With root https://ex.com/docs, https://ex.com/blog/x is
\* rejected and https://ex.com/docs/sub is accepted.
C3_Admission ==
    [][ pc = "links" =>
          LET new == [ i \in 1..Len(links) |-> ResolveLink(url, links[i]) ]
              admitted(u) == /\ StartsWith(u, start_url)
                             /\ u \notin scraped
                             /\ netloc(u) = netloc(start_url)
          IN  /\ to_scrape' = to_scrape \o SelectSeq(new, admitted)
              /\ start_url = Docs => BlogX \notin Range(to_scrape')
              /\ (start_url = Docs /\ Sub \in Range(new) /\ Sub \notin scraped)
                    => Sub \in Range(to_scrape')
      ]_vars

\* link discovery has met both examples under the root https://ex.com/docs
C3_Witness ==
    /\ pc = "loop"
    /\ start_url = Docs
    /\ BlogX \in discovered
    /\ Sub \in discovered
    /\ Sub \in Range(enqueued)
    /\ BlogX \notin Range(enqueued)

\* C4: when every oracle call for a page fails with a transport error, the
\* oracle is called exactly 5 times, never more, and the fallback returns
\* none.
C4_FiveTransportFailures ==
    (pc \in {"oracle", "resolved"} /\ oracle_calls > 0 /\ oracle_calls = backoff) =>
        /\ oracle_calls <= 5
        /\ pc = "resolved" => (oracle_calls = 5 /\ content_selector = None)

\* the fallback has returned none after five calls that all raised
C4_Witness ==
    /\ pc = "resolved"
    /\ oracle_calls = 5
    /\ backoff = 5
    /\ content_selector = None

\* C5: for any page the oracle fallback makes at most 5 oracle calls,
\* whatever mix of remote-call errors and validation failures occurs.
C5_AtMostFiveCalls == oracle_calls <= 5

\* C6: when at least one candidate matches the page, the earliest such
\* candidate in list order is returned and the oracle is not called; the
\* oracle is called only when no candidate matches.
C6_FirstCandidateWins ==
    LET matches(sel) == sel \in soup.full
        n == Len(DOM_SELECTORS)
        \* the candidate list the page was tried against
        tried == IF pc = "resolved" /\ oracle_calls > 0 /\ content_selector /= None
                 THEN SubSeq(DOM_SELECTORS, 1, n - 1) ELSE DOM_SELECTORS
    IN  /\ (pc = "resolved" /\ oracle_calls = 0) =>
              \E i \in 1..n : /\ content_selector = DOM_SELECTORS[i]
                              /\ matches(DOM_SELECTORS[i])
                              /\ \A j \in 1..(i - 1) : ~ matches(DOM_SELECTORS[j])
        /\ (pc \in {"oracle", "asked"} \/ (pc = "resolved" /\ oracle_calls > 0)) =>
              \A i \in 1..Len(tried) : ~ matches(tried[i])

\* a page on which two candidates match was resolved to the earlier one
\* without an oracle call
C6_Witness ==
    /\ pc = "resolved"
    /\ oracle_calls = 0
    /\ content_selector = "main"
    /\ "article" \in soup.full

\* the files whose content is the markdown of one page
IsArtifact(fs, k) == \E u \in Range(fetched) \cup StartUrls : fs[k] = PageMd(u)

\* C9: with compile_only set, scrape_website fetches no page, calls neither
\* the selector resolver nor the oracle, writes or changes no per-page
\* artifact, and runs compile exactly once before it ends.  (Whether the
\* one call of compile raises is left open here.)
C9_CompileOnlyFrame ==
    [][ (pc = "call" /\ compile_only) =>
          /\ fetched' = << >>
          /\ oracle_calls' = 0
          /\ content_selector' = None
          /\ DOM_SELECTORS' = DOM_SELECTORS
          /\ \A k \in DOMAIN files :
                IsArtifact(files, k) => (k \in DOMAIN files' /\ files'[k] = files[k])
          /\ pc' \in {"returned", "raised"}
          /\ compiles' = 1
      ]_vars

\* C10: in every reachable state the queue holds no URL twice.
C10_QueueHoldsNoUrlTwice ==
    \A i, j \in 1..Len(to_scrape) : to_scrape[i] = to_scrape[j] => i = j

\* C12: a page whose title says not found, or for which neither a candidate
\* nor the oracle gives a selector, has no artifact written and none of its
\* links admitted: from its fetch to the point it is given up the disk and
\* the queue stay as they are, its URL stays in the visited set, and the
\* loop goes on with the next URL of the queue.
C12_FailedPageFrame ==
    [][ /\ pc \in {"fetched", "oracle", "asked"} =>
              /\ files' = files
              /\ dirs' = dirs
              /\ to_scrape' = to_scrape
              /\ enqueued' = enqueued
              /\ scraped' = scraped
              /\ url \in scraped'
        /\ ((pc = "fetched" /\ pc' = "loop") \/ (pc = "resolved" /\ content_selector = None)) =>
              /\ files' = files
              /\ dirs' = dirs
              /\ to_scrape' = to_scrape
              /\ enqueued' = enqueued
              /\ scraped' = scraped
              /\ url \in scraped'
              /\ pc' = "loop"
      ]_vars

\* a page was fetched and given up: it has no artifact while another page
\* has, and the loop is back at its head with URLs left in the queue
C12_Witness ==
    /\ pc = "loop"
    /\ url \in Range(fetched)
    /\ url \notin persisted
    /\ Canon(ArtifactPath(url)) \notin DOMAIN files
    /\ persisted /= {}
    /\ to_scrape /= << >>

\* C13: the compiled output path derived from the start URL is never the
\* path of an artifact written for a page in the same crawl, the start
\* page's in particular, so writing the compiled document cannot overwrite
\* or truncate an artifact.
C13_CompiledPathIsNoArtifact ==
    \A u \in persisted : Canon(ArtifactPath(u)) /= Canon(compiled_markdown_path)

\* C14: save_markdown_file gives different URLs of one host different file
\* paths: no two persisted URLs are written to the same file, so there are
\* as many artifacts as persisted URLs.
C14_DistinctUrlsDistinctFiles ==
    /\ \A u, v \in persisted :
          u /= v => Canon(ArtifactPath(u)) /= Canon(ArtifactPath(v))
    /\ Cardinality({ Canon(ArtifactPath(u)) : u \in persisted }) = Cardinality(persisted)

\* k is a file in the tree of directory base
Under(k, base) == StartsWith(k, Canon(base) \o << "/" >>)

\* C15: after a crawl has completed, every artifact it wrote lies in the
\* tree of the base directory compile walks (which is what puts the content
\* of every persisted page in the compiled document), for every form of
\* the start URL, with or without "www." and a trailing slash.
C15_ArtifactsUnderBase ==
    pc = "done" =>
        \A u \in persisted : Under(Canon(ArtifactPath(u)), base_path)

\* C18: an oracle resolution that succeeds puts the validated selector at
\* the end of the candidate list and leaves the entries before it and their
\* order as they were; one that fails leaves the list as it was; a later
\* page on which an appended selector matches and no candidate before it
\* does is resolved to that selector without a call of the oracle.
C18_OracleAppendsAtEnd ==
    [][ /\ (pc = "asked" /\ pc' = "resolved") =>
              /\ DOM_SELECTORS' = DOM_SELECTORS \o << content_selector' >>
              /\ content_selector' \in soup.full
        /\ (pc \in {"oracle", "asked"} /\ ~ (pc = "asked" /\ pc' = "resolved")) =>
              DOM_SELECTORS' = DOM_SELECTORS
        /\ (pc = "fetched" /\ pc' \in {"resolved", "oracle"}) =>
              \A i \in (Len(BuiltinSelectors) + 1)..Len(DOM_SELECTORS) :
                  ( /\ DOM_SELECTORS[i] \in soup'.full
                    /\ \A j \in 1..(i - 1) : DOM_SELECTORS[j] \notin soup'.full )
                  => /\ pc' = "resolved"
                     /\ content_selector' = DOM_SELECTORS[i]
                     /\ oracle_calls' = 0
                     /\ DOM_SELECTORS' = DOM_SELECTORS
      ]_vars

\* after an append of the oracle a later page was resolved to the appended
\* selector without a call of the oracle
C18_Witness ==
    /\ pc = "resolved"
    /\ oracle_calls = 0
    /\ Len(DOM_SELECTORS) = Len(BuiltinSelectors) + 1
    /\ content_selector = DOM_SELECTORS[Len(DOM_SELECTORS)]

\* the place at which u was put in the queue first
FirstPut(u) ==
    CHOOSE i \in 1..Len(enqueued) :
        enqueued[i] = u /\ \A j \in 1..(i - 1) : enqueued[j] /= u

\* C19: the queue is first in, first out: the start URL is fetched first,
\* and of two fetched URLs the one that was put in the queue first earlier
\* is fetched earlier.
C19_Fifo ==
    /\ fetched /= << >> => fetched[1] = start_url
    /\ \A i \in 1..Len(fetched) : fetched[i] \in Range(enqueued)
    /\ \A i, j \in 1..Len(fetched) :
          i < j => FirstPut(fetched[i]) < FirstPut(fetched[j])

\* a finished crawl that fetched three pages, the last of them a URL that
\* was put in the queue twice
C19_Witness ==
    /\ pc = "done"
    /\ Len(fetched) = 3
    /\ \E i, k \in 1..Len(enqueued) :
          i < k /\ enqueued[i] = fetched[3] /\ enqueued[k] = fetched[3]

\* C11: every crawl terminates: the queue is empty in the end and compile
\* has then been called exactly once (returning or raising), whatever pages
\* are not found, fail selector resolution, get transport errors from the
\* oracle or get answers of the oracle that do not validate.
C11_Terminates ==
    <>(/\ pc \in Ended
       /\ compiles = 1
       /\ ~ compile_only => to_scrape = << >>)

\* ------------------------------------------------------------------------
\* Specification SpecPace: the crawl from https://ex.com/docs, without and
\* with --slow
\* ------------------------------------------------------------------------

InitPace == CallWith({Docs}, BOOLEAN)

SpecPace == InitPace /\ [][Next]_vars

\* C17: between two fetches that follow one another the loop sleeps once
\* for a random time, of 1 to 5 seconds, of 20 to 35 with slow: no page is
\* fetched right after another without that pause, whatever became of the
\* earlier page.
C17_PauseBetweenFetches ==
    [][ (pc = "loop" /\ pc' = "fetched" /\ fetched /= << >>) =>
            wait_for \in (IF slow THEN 20..35 ELSE 1..5)
      ]_vars

\* ------------------------------------------------------------------------
\* Specification SpecCompile: compile_markdown_files called twice in a row
\* for a base directory and an output path, on a disk that holds artifacts
\* ------------------------------------------------------------------------

\* calls of compile_markdown_files in a row
MaxCompiles == 2

DocsMd == Canon(ArtifactPath(Docs))
SubMd == Canon(ArtifactPath(Sub))
NotesTxt == Canon(<< "downloaded", "/", "ex.com", "/", "notes", ".txt" >>)

\* what the files can hold
Contents == { << "A" >>, << "B" >> }

\* the disks: each of the three files is there or not
CompileDisks ==
    { [ k \in ks |-> c[k] ] : ks \in SUBSET { DocsMd, SubMd, NotesTxt },
                              c \in [ { DocsMd, SubMd, NotesTxt } -> Contents ] }

CompileBases ==
    { BasePathOf(Docs),
      << "downloaded", "/" >>,
      << "downloaded", "/", "ex.com", "/", "docs" >>,
      << "downloaded", "/", "none" >> }

CompileOuts ==
    { CompiledPathOf(Docs),
      path_join(Cwd, << "compiled", ".md" >>),
      path_join(Cwd, << "downloaded", "/", "ex.com", "/", "docs", "/", "all", ".md" >>),
      path_join(Cwd, << "downloaded", "/", "none", "/", "x", ".md" >>) }

InitCompile ==
    /\ pc = "compile"
    /\ files \in CompileDisks
    /\ dirs = UNION { AncestorsAndSelf(ParentDir(k)) : k \in DOMAIN files }
                \cup AncestorsAndSelf(Canon(<< "downloaded" >>))
    /\ base_path \in CompileBases
    /\ compiled_markdown_path \in CompileOuts
    /\ compiles = 0
    /\ CrawlIdle
    /\ NormIdle

CompileCall ==
    /\ pc = "compile"
    /\ compiles < MaxCompiles
    /\ Compile(files, dirs, base_path, compiled_markdown_path, "compile")
    /\ UNCHANGED << inputVars, pathVars, frontierVars, pageVars, oracleVars, DOM_SELECTORS,
                    dirs, logVars, normVars, sessionVars, paceVars >>

NextCompile == CompileCall

SpecCompile == InitCompile /\ [][NextCompile]_vars

\* the contents of the files of `order`, each followed by the separator
RECURSIVE Joined(_, _)
Joined(fs, order) ==
    IF order = << >> THEN << >>
    ELSE fs[Head(order)] \o << NL >> \o Joined(fs, Tail(order))

\* C8: compile_markdown_files(base, out) leaves out holding the content of
\* every .md file under base exactly once, each followed by a blank-line
\* separator, and nothing else, for any base directory and output path; a
\* second run in a row gives the same.  (The .md files are those other than
\* out itself, whose prior content is to be replaced.)
C8_CompileExact ==
    [][ (pc = "compile" /\ pc' = "compile") =>
          LET out == Canon(compiled_markdown_path)
              artifacts == { k \in DOMAIN files :
                               /\ IsMarkdownName(k)
                               /\ Under(k, base_path)
                               /\ k /= out }
          IN  /\ out \in DOMAIN files'
              /\ files'[out] \in { Joined(files, order) : order \in SeqPerms(artifacts) }
      ]_vars

\* ------------------------------------------------------------------------
\* Specification SpecSessions: Scraper objects constructed one after the
\* other in one process, each asked for the selectors of some pages
\* ------------------------------------------------------------------------

\* most Scraper objects of one process
MaxSessions == 2

\* the class body has run and the first Scraper() has been constructed
InitSessions ==
    /\ pc = "session"
    /\ CrawlIdle
    /\ base_path = << >>
    /\ compiled_markdown_path = << >>
    /\ files = NoFiles
    /\ dirs = {}
    /\ compiles = 0
    /\ NormIdle

\* Scraper(): __init__ sets debug, client and browser; DOM_SELECTORS is not
\* assigned, the object reads the list of the class
NewSession ==
    /\ pc = "session"
    /\ session < MaxSessions
    /\ session' = session + 1
    /\ own' = << >>
    /\ UNCHANGED << pc, inputVars, pathVars, frontierVars, pageVars, oracleVars,
                    DOM_SELECTORS, diskVars, logVars, compiles, normVars, paceVars >>

\* get_main_content_selector is called for a page
GetSelector ==
    /\ pc = "session"
    /\ pc' = "fetched"
    /\ UNCHANGED << inputVars, pathVars, frontierVars, pageVars, oracleVars,
                    DOM_SELECTORS, sessionVars, diskVars, logVars, compiles, normVars, paceVars >>

\* get_main_content_selector has returned; its locals are gone
ReturnSelector ==
    /\ pc = "resolved"
    /\ soup' = NoSoup
    /\ content_selector' = None
    /\ backoff' = 0
    /\ oracle_calls' = 0
    /\ pc' = "session"
    /\ UNCHANGED << inputVars, pathVars, frontierVars, url, links,
                    DOM_SELECTORS, sessionVars, diskVars, logVars, compiles, normVars, paceVars >>

NextSessions ==
    \/ NewSession
    \/ GetSelector
    \/ ResolveCandidate
    \/ EnterOracle
    \/ OracleAsk
    \/ OracleRaises
    \/ OracleValid
    \/ OracleInvalid
    \/ OracleExhausted
    \/ ReturnSelector

SpecSessions == InitSessions /\ [][NextSessions]_vars

\* C16: the candidate list belongs to one session: the list a Scraper
\* object uses is the built-in list followed by the selectors its own
\* oracle successes appended, and by nothing another session appended.
C16_ListOwnedBySession == DOM_SELECTORS = BuiltinSelectors \o own

\* C20: after any sequence of page resolutions the candidate list holds no
\* selector string twice.
C20_NoSelectorTwice ==
    \A i, j \in 1..Len(DOM_SELECTORS) : DOM_SELECTORS[i] = DOM_SELECTORS[j] => i = j

\* the oracle was called again, for a page on which no candidate matches,
\* in a session whose list held a selector appended before
C20_Witness ==
    /\ session = 2
    /\ Len(DOM_SELECTORS) = Len(BuiltinSelectors) + 1
    /\ pc = "asked"
    /\ oracle_calls >= 2

\* ------------------------------------------------------------------------
\* Specification SpecNorm: normalize_url applied once and twice to a bounded
\* input string
\* ------------------------------------------------------------------------

\* longest argument of normalize_url, in tokens
MaxLen == 3

NormAlphabet == {"https://", "http://", "www.", "/", "ex.com"}

InitNorm ==
    /\ pc = "arg"
    /\ n_url \in StringsUpTo(NormAlphabet, MaxLen)
    /\ n_once = << >>
    /\ n_twice = << >>
    /\ CrawlIdle
    /\ base_path = << >>
    /\ compiled_markdown_path = << >>
    /\ files = NoFiles
    /\ dirs = {}
    /\ compiles = 0

NormalizeOnce ==
    /\ pc = "arg"
    /\ n_once' = normalize_url(n_url)
    /\ pc' = "once"
    /\ UNCHANGED << n_url, n_twice, inputVars, pathVars, frontierVars, pageVars,
                    oracleVars, DOM_SELECTORS, diskVars, logVars, compiles, sessionVars,
                    paceVars >>

NormalizeTwice ==
    /\ pc = "once"
    /\ n_twice' = normalize_url(n_once)
    /\ pc' = "twice"
    /\ UNCHANGED << n_url, n_once, inputVars, pathVars, frontierVars, pageVars,
                    oracleVars, DOM_SELECTORS, diskVars, logVars, compiles, sessionVars,
                    paceVars >>

NextNorm == NormalizeOnce \/ NormalizeTwice

SpecNorm == InitNorm /\ [][NextNorm]_vars

\* C7: normalize_url is idempotent for every input string:
\* normalize_url(normalize_url(u)) = normalize_url(u).
C7_Idempotent == pc = "twice" => n_twice = n_once

====
